---- MODULE Spec2Model ----
(***************************************************************************)
(* Model of pyflow/scene/clipboard.py: the SceneClipboard helper that      *)
(* cuts, copies and pastes the selected blocks and edges of a Scene.       *)
(*                                                                         *)
(* Every operation of SceneClipboard runs to completion on the Qt event    *)
(* thread, so cut, copy and paste are one action each.  The Scene, the     *)
(* View, Block and Edge are collaborators whose code lives outside         *)
(* clipboard.py; their operators are marked as such below.                 *)
(*                                                                         *)
(* Coordinates are Python floats.  They are kept here as integers counted  *)
(* in units of 1/Scale, Scale a power of two large enough for every        *)
(* halving done by _find_bbox_center to be exact (see HalvingExact).       *)
(***************************************************************************)
EXTENDS Integers, Sequences, FiniteSets, TLC

\* ------------------------------------------------------------------ bounds
\* The pastes of a stored payload explored in one session.
MaxPastes == 2
\* The selection made by the user holds at most MaxSelBlocks blocks and
\* MaxSelEdges edges.
MaxSelBlocks == 3
MaxSelEdges == 3

\* Identities of the items of the initial scene: blocks 1..3, edges 4..6.
InitBlockIds == {1, 2, 3}
InitEdgeIds == {4, 5, 6}
FirstFreeId == Cardinality(InitBlockIds) + Cardinality(InitEdgeIds) + 1

\* Each paste halves the granularity of the positions at most once.
Scale == 2 ^ MaxPastes

VARIABLES
    blocks,        \* scene: block id -> [position, width, height]
    edges,         \* scene: edge id -> [source_socket, destination_socket]
    selBlocks,     \* scene: the selected blocks, in the order the scene reports them
    selEdges,      \* scene: the selected edges, in the order the scene reports them
    lastMousePos,  \* view.lastMousePos, in scene coordinates
    nextId,        \* the next fresh identity the scene hands out
    objects,       \* SceneClipboard.objects: <<>> for None, <<data>> otherwise
    last,          \* what the most recent cut, copy or paste did
    prev,          \* what the cut, copy or paste before that one did
    pastes         \* how many times a stored payload has been pasted

vars == <<blocks, edges, selBlocks, selEdges, lastMousePos, nextId, objects, last, prev,
          pastes>>

\* ----------------------------------------------------------------- helpers
None == <<>>

Range(s) == {s[i] : i \in DOMAIN s}

Min(S) == CHOOSE x \in S : \A y \in S : x <= y
Max(S) == CHOOSE x \in S : \A y \in S : x >= y

\* The sequence s without its i-th element.
RemoveAt(s, i) == [j \in 1..(Len(s) - 1) |-> IF j < i THEN s[j] ELSE s[j + 1]]

\* All sequences without repetition of at most n elements of S.
RECURSIVE Arrangements(_, _)
Arrangements(S, n) ==
    IF n = 0 \/ S = {} THEN {<<>>}
    ELSE {<<>>} \cup UNION {{<<x>> \o t : t \in Arrangements(S \ {x}, n - 1)} : x \in S}

\* ------------------------------------------------- sockets, blocks, edges
\* A block has one input and one output socket; a socket's id is the pair
\* of its block and its kind.
Socket(b, k) == [block |-> b, kind |-> k]
sockets_in(b) == {Socket(b, "in")}
sockets_out(b) == {Socket(b, "out")}

Block(x, y, w, h) == [position |-> <<x * Scale, y * Scale>>,
                      width |-> w * Scale, height |-> h * Scale]
Edge(s, d) == [source_socket |-> Socket(s, "out"),
               destination_socket |-> Socket(d, "in")]

\* Block.serialize / Edge.serialize: a data-only record carrying the id.
SerializeBlock(b) == [id |-> b, position |-> blocks[b].position,
                      width |-> blocks[b].width, height |-> blocks[b].height]
SerializeEdge(e) == [id |-> e, source_socket |-> edges[e].source_socket,
                     destination_socket |-> edges[e].destination_socket]

\* Events a clipboard operation emits, in order.
Ev(name, id) == [ev |-> name, id |-> id]

\* What an operation leaves behind for the properties below: its name, the
\* pointer position it read, the items it created, the events it emitted,
\* the rebinding map it built, the payload it built (cut, copy) or read
\* (paste), and facts about the state it started from.
Done(name, data, newBlocks, newEdges, log, hashmap) ==
    [op |-> name, mouse |-> lastMousePos, data |-> data,
     newBlocks |-> newBlocks, newEdges |-> newEdges, log |-> log, hashmap |-> hashmap,
     nsel |-> Len(selBlocks), msel |-> Len(selEdges),
     internal |-> \A i \in DOMAIN selEdges :
                    /\ edges[selEdges[i]].source_socket.block \in Range(selBlocks)
                    /\ edges[selEdges[i]].destination_socket.block \in Range(selBlocks),
     hadStore |-> objects # None]

NoOp == [op |-> "none", mouse |-> <<0, 0>>, data |-> <<>>, newBlocks |-> <<>>, newEdges |-> <<>>,
         log |-> <<>>, hashmap |-> <<>>, nsel |-> 0, msel |-> 0, internal |-> TRUE,
         hadStore |-> FALSE]

\* The pointer positions the user moves the mouse to.
MousePositions == {<<100 * Scale, 100 * Scale>>, <<35 * Scale, 7 * Scale>>}

\* ------------------------------------------------------------------- Init
\* The clipboard is built for a scene of three blocks joined in a ring by
\* three edges,
\* in which the user has selected some blocks and edges, in any order.
Init ==
    /\ blocks = [b \in InitBlockIds |->
                   CASE b = 1 -> Block(0, 0, 10, 10)
                     [] b = 2 -> Block(20, 20, 10, 10)
                     [] b = 3 -> Block(5, 40, 20, 11)]
    /\ edges = [e \in InitEdgeIds |->
                  CASE e = 4 -> Edge(1, 2)
                    [] e = 5 -> Edge(2, 3)
                    [] e = 6 -> Edge(3, 1)]
    /\ selBlocks \in Arrangements(InitBlockIds, MaxSelBlocks)
    /\ selEdges \in Arrangements(InitEdgeIds, MaxSelEdges)
    /\ lastMousePos \in MousePositions
    /\ nextId = FirstFreeId
    /\ objects = None
    /\ last = NoOp
    /\ prev = NoOp
    /\ pastes = 0

\* ------------------------------------------------------- scene (collaborator)
\* Scene.sortedSelectedItems: the selected blocks and the selected edges, as
\* two fresh lists in the scene's stable order.
sortedSelectedItems == <<selBlocks, selEdges>>

\* View.deleteSelected: the selected items leave the scene, and with a block
\* the edges attached to its sockets (an edge needs both its sockets).
BlocksAfterDelete == [b \in DOMAIN blocks \ Range(selBlocks) |-> blocks[b]]
EdgesAfterDelete ==
    LET keep == {e \in DOMAIN edges \ Range(selEdges) :
                    /\ edges[e].source_socket.block \notin Range(selBlocks)
                    /\ edges[e].destination_socket.block \notin Range(selBlocks)}
    IN  [e \in keep |-> edges[e]]

\* ------------------------------------------------------------ SceneClipboard
\* _serializeSelected, "Gather selected sockets".
selected_sockets(selected_blocks) ==
    UNION {sockets_in(b) \cup sockets_out(b) : b \in Range(selected_blocks)}

\* The condition of the filter: the edge is not fully connected to selected sockets.
NotFullyConnected(e, socks) ==
    \/ edges[e].source_socket \notin socks
    \/ edges[e].destination_socket \notin socks

\* A filter loop in which removing an edge also loses the edge that follows it.
RECURSIVE FilterLoop_dropsNext(_, _, _)
FilterLoop_dropsNext(selected_edges, i, socks) ==
    IF i > Len(selected_edges) THEN selected_edges
    ELSE IF NotFullyConnected(selected_edges[i], socks)
         THEN LET rest == RemoveAt(selected_edges, i)
              IN  FilterLoop_dropsNext(IF i <= Len(rest) THEN RemoveAt(rest, i) ELSE rest,
                                       i, socks)
         ELSE FilterLoop_dropsNext(selected_edges, i + 1, socks)

\* _serializeSelected, "Filter edges": `for edge in selected_edges:
\* ... selected_edges.remove(edge)`.  The list iterator of Python keeps an
\* index into the list: it yields list[i] while i < len(list) and then moves
\* to i + 1, whether or not the list shrank in between.
RECURSIVE FilterLoop(_, _, _)
FilterLoop(selected_edges, i, socks) ==
    IF i > Len(selected_edges) THEN selected_edges
    ELSE IF NotFullyConnected(selected_edges[i], socks)
         THEN FilterLoop(RemoveAt(selected_edges, i), i + 1, socks)
         ELSE FilterLoop(selected_edges, i + 1, socks)

\* _serializeSelected: the data it returns.
_serializeSelected ==
    LET selected_blocks == sortedSelectedItems[1]
        selected_edges == FilterLoop(sortedSelectedItems[2], 1,
                                     selected_sockets(selected_blocks))
    IN  [blocks |-> [i \in 1..Len(selected_blocks) |-> SerializeBlock(selected_blocks[i])],
         edges |-> [i \in 1..Len(selected_edges) |-> SerializeEdge(selected_edges[i])]]

\* A _store that lacks the validity check.
_store_unchecked(data) == <<data>>

\* A _store that returns early on an invalid payload, keeping what it holds.
_store_keeps(data) == IF data.blocks = <<>> THEN objects ELSE <<data>>

\* _store: the value of self.objects after the call.
_store(data) == IF data.blocks = <<>> THEN None ELSE <<data>>

\* _gatherData: the value it returns (it warns when there is none).
_gatherData == objects

\* A cut that serializes with delete=False.
cut_noDelete ==
    LET data == _serializeSelected IN
    /\ objects' = _store(data)
    /\ last' = Done("cut", <<data>>, <<>>, <<>>, <<>>, <<>>)
    /\ prev' = last
    /\ UNCHANGED <<blocks, edges, selBlocks, selEdges, lastMousePos, nextId, pastes>>

\* cut: self._store(self._serializeSelected(delete=True)).
cut ==
    LET data == _serializeSelected IN
    /\ blocks' = BlocksAfterDelete
    /\ edges' = EdgesAfterDelete
    /\ selBlocks' = <<>>
    /\ selEdges' = <<>>
    /\ objects' = _store(data)
    /\ last' = Done("cut", <<data>>, <<>>, <<>>, <<Ev("deleteSelected", 0)>>, <<>>)
    /\ prev' = last
    /\ UNCHANGED <<lastMousePos, nextId, pastes>>

\* A copy whose filter loop removes the edges from the scene's own selection.
copy_aliased ==
    LET data == _serializeSelected IN
    /\ objects' = _store(data)
    /\ selEdges' = [i \in DOMAIN data.edges |-> data.edges[i].id]
    /\ last' = Done("copy", <<data>>, <<>>, <<>>, <<>>, <<>>)
    /\ prev' = last
    /\ UNCHANGED <<blocks, edges, selBlocks, lastMousePos, nextId, pastes>>

\* copy: self._store(self._serializeSelected(delete=False)).
copy ==
    LET data == _serializeSelected IN
    /\ objects' = _store(data)
    /\ last' = Done("copy", <<data>>, <<>>, <<>>, <<>>, <<>>)
    /\ prev' = last
    /\ UNCHANGED <<blocks, edges, selBlocks, selEdges, lastMousePos, nextId, pastes>>

\* A _find_bbox_center that forgets the width and the height of the blocks.
_find_bbox_center_corners(blocks_data) ==
    LET xmin == Min({blocks_data[i].position[1] : i \in DOMAIN blocks_data})
        xmax == Max({blocks_data[i].position[1] : i \in DOMAIN blocks_data})
        ymin == Min({blocks_data[i].position[2] : i \in DOMAIN blocks_data})
        ymax == Max({blocks_data[i].position[2] : i \in DOMAIN blocks_data})
    IN  <<(xmin + xmax) \div 2, (ymin + ymax) \div 2>>

\* _find_bbox_center: the center of the bounding box of the serialized blocks.
_find_bbox_center(blocks_data) ==
    LET xmin == Min({blocks_data[i].position[1] : i \in DOMAIN blocks_data})
        xmax == Max({blocks_data[i].position[1] + blocks_data[i].width : i \in DOMAIN blocks_data})
        ymin == Min({blocks_data[i].position[2] : i \in DOMAIN blocks_data})
        ymax == Max({blocks_data[i].position[2] + blocks_data[i].height : i \in DOMAIN blocks_data})
    IN  <<(xmin + xmax) \div 2, (ymin + ymax) \div 2>>

\* Scene.create_block(block_data, hashmap, restore_id=False): a block built
\* from the data, under a freshly generated identity.
create_block(block_data) ==
    [position |-> block_data.position, width |-> block_data.width,
     height |-> block_data.height]

\* Edge.deserialize(edge_data, hashmap, restore_id=False): the sockets of the
\* new edge are those of the blocks the hashmap gives for the owners of the
\* serialized sockets; an owner missing from the hashmap cannot be resolved.
Resolvable(edge_data, hashmap) ==
    /\ edge_data.source_socket.block \in DOMAIN hashmap
    /\ edge_data.destination_socket.block \in DOMAIN hashmap
EdgeDeserialize(edge_data, hashmap) ==
    [source_socket |-> Socket(hashmap[edge_data.source_socket.block],
                              edge_data.source_socket.kind),
     destination_socket |-> Socket(hashmap[edge_data.destination_socket.block],
                                   edge_data.destination_socket.kind)]

\* The outcome of a call that leaves the scene as it is.
NoChange(data, log) ==
    [blocks |-> blocks, edges |-> edges, selBlocks |-> selBlocks, selEdges |-> selEdges,
     nextId |-> nextId, data |-> data, newBlocks |-> <<>>, newEdges |-> <<>>,
     hashmap |-> <<>>, log |-> log]

\* _deserializeData past its `if data is None` guard: the scene, the payload
\* object and the fresh-identity counter after the call, with the events
\* emitted.  An edge that cannot be resolved raises out of the edge loop: the
\* blocks and the edges created so far stay, and the checkpoint is not reached.
Rebuild(data) ==
    LET blocks_data == data[1].blocks
        edges_data == data[1].edges
        k == Len(blocks_data)
        center == _find_bbox_center(blocks_data)
        offset_x == lastMousePos[1] - center[1]
        offset_y == lastMousePos[2] - center[2]
        newBlocks == [i \in 1..k |-> nextId + i - 1]
        blockMap == [old \in {blocks_data[i].id : i \in 1..k} |->
                       newBlocks[Max({i \in 1..k : blocks_data[i].id = old})]]
        placed(i) == LET b == create_block(blocks_data[i])
                     IN  [b EXCEPT !.position = <<b.position[1] + offset_x,
                                                  b.position[2] + offset_y>>]
        bad == {j \in DOMAIN edges_data : ~Resolvable(edges_data[j], blockMap)}
        done == IF bad = {} THEN Len(edges_data) ELSE Min(bad) - 1
        newEdges == [j \in 1..done |-> nextId + k + j - 1]
        edgeMap == [old \in {edges_data[j].id : j \in 1..done} |->
                      newEdges[Max({j \in 1..done : edges_data[j].id = old})]]
        used == k + done + (IF bad = {} THEN 0 ELSE 1)
    IN  [blocks |-> [b \in DOMAIN blocks \cup Range(newBlocks) |->
                       IF b \in DOMAIN blocks THEN blocks[b]
                       ELSE placed(CHOOSE i \in 1..k : newBlocks[i] = b)],
         edges |-> [e \in DOMAIN edges \cup Range(newEdges) |->
                       IF e \in DOMAIN edges THEN edges[e]
                       ELSE EdgeDeserialize(edges_data[CHOOSE j \in 1..done : newEdges[j] = e],
                                            blockMap)],
         selBlocks |-> newBlocks,
         selEdges |-> newEdges,
         nextId |-> nextId + used,
         data |-> data,
         newBlocks |-> newBlocks,
         newEdges |-> newEdges,
         hashmap |-> [old \in DOMAIN blockMap \cup DOMAIN edgeMap |->
                        IF old \in DOMAIN blockMap THEN blockMap[old] ELSE edgeMap[old]],
         log |-> <<Ev("clearSelection", 0)>>
                 \o [i \in 1..k |-> Ev("create_block", newBlocks[i])]
                 \o [j \in 1..done |-> Ev("addItem", newEdges[j])]
                 \o (IF bad = {} THEN <<Ev("checkpoint", 1)>> ELSE <<Ev("KeyError", 0)>>)]

\* A _deserializeData that moves the positions held in the payload itself.
_deserializeData_inplace(data) ==
    IF data = None THEN NoChange(data, <<>>)
    ELSE LET r == Rebuild(data)
             moved(i) == [data[1].blocks[i] EXCEPT
                            !.position = r.blocks[r.newBlocks[i]].position]
         IN  [r EXCEPT !.data = <<[data[1] EXCEPT
                                     !.blocks = [i \in DOMAIN data[1].blocks |-> moved(i)]]>>]

\* A _deserializeData that never adds the edges it builds to the scene.
_deserializeData_noAddItem(data) ==
    IF data = None THEN NoChange(data, <<>>)
    ELSE [Rebuild(data) EXCEPT !.edges = edges]

\* A _deserializeData that runs its edge loop before its block loop.
_deserializeData_edgesFirst(data) ==
    IF data = None THEN NoChange(data, <<>>)
    ELSE LET r == Rebuild(data)
             k == Len(r.newBlocks)
             m == Len(r.newEdges)
         IN  [r EXCEPT !.log = <<r.log[1]>> \o SubSeq(r.log, k + 2, k + m + 1)
                               \o SubSeq(r.log, 2, k + 1) \o <<r.log[k + m + 2]>>]

\* A _deserializeData whose edges keep the sockets serialized in the payload
\* instead of those the hashmap gives.
_deserializeData_noRebind(data) ==
    IF data = None THEN NoChange(data, <<>>)
    ELSE LET r == Rebuild(data)
             serialized(e) == LET d == data[1].edges[CHOOSE j \in DOMAIN r.newEdges :
                                                         r.newEdges[j] = e]
                              IN  [source_socket |-> d.source_socket,
                                   destination_socket |-> d.destination_socket]
         IN  [r EXCEPT !.edges = [e \in DOMAIN r.edges |->
                                    IF e \in Range(r.newEdges) THEN serialized(e)
                                    ELSE r.edges[e]]]

\* A _deserializeData that selects what it creates without clearing the
\* selection first.
_deserializeData_noClear(data) ==
    IF data = None THEN NoChange(data, <<>>)
    ELSE LET r == Rebuild(data)
         IN  [r EXCEPT !.selBlocks = selBlocks \o r.newBlocks,
                       !.selEdges = selEdges \o r.newEdges,
                       !.log = Tail(r.log)]

\* _deserializeData(data, set_selected=True).
_deserializeData(data) ==
    IF data = None THEN NoChange(data, <<>>) ELSE Rebuild(data)

\* The scene and the clipboard take the outcome r of an operation.
Apply(name, r) ==
    /\ blocks' = r.blocks
    /\ edges' = r.edges
    /\ selBlocks' = r.selBlocks
    /\ selEdges' = r.selEdges
    /\ nextId' = r.nextId
    /\ objects' = r.data
    /\ last' = Done(name, objects, r.newBlocks, r.newEdges, r.log, r.hashmap)
    /\ prev' = last
    /\ pastes' = IF r.log = <<>> \/ r.log[1].ev = "warn" THEN pastes ELSE pastes + 1
    /\ UNCHANGED lastMousePos

\* The session has a paste of a stored payload left.
PasteAllowed(data) == data # None => pastes < MaxPastes

\* A paste that clears the selection before it looks at the data.
paste_clearsFirst ==
    LET data == _gatherData IN
    /\ PasteAllowed(data)
    /\ IF data # None
       THEN Apply("paste", _deserializeData(data))
       ELSE Apply("paste", [NoChange(data, <<Ev("warn", 0)>>) EXCEPT
                              !.selBlocks = <<>>, !.selEdges = <<>>])

\* paste: data = self._gatherData(); if data is not None: self._deserializeData(data).
paste ==
    LET data == _gatherData IN
    /\ PasteAllowed(data)
    /\ IF data # None
       THEN Apply("paste", _deserializeData(data))
       ELSE Apply("paste", NoChange(data, <<Ev("warn", 0)>>))

\* ------------------------------------------------------------ environment
\* The user clicks on the background: Scene.clearSelection.
clearSelection ==
    /\ selBlocks' = <<>>
    /\ selEdges' = <<>>
    /\ last' = NoOp
    /\ prev' = NoOp
    /\ UNCHANGED <<blocks, edges, lastMousePos, nextId, objects, pastes>>

\* The user moves the pointer over the view.
MoveMouse ==
    /\ \E p \in MousePositions : lastMousePos' = p
    /\ UNCHANGED <<blocks, edges, selBlocks, selEdges, nextId, objects, last, prev, pastes>>

Next == cut \/ copy \/ paste \/ clearSelection \/ MoveMouse

Spec == Init /\ [][Next]_vars

\* ================================================================ properties
\* The payload p holds no edge with a socket of a block that p does not hold.
SelfContained(p) ==
    LET ids == {p.blocks[i].id : i \in DOMAIN p.blocks}
    IN  \A j \in DOMAIN p.edges :
            /\ p.edges[j].source_socket.block \in ids
            /\ p.edges[j].destination_socket.block \in ids

\* C1: the payload built by copy() or cut() holds only links whose source and
\* destination ports both belong to blocks of the payload, and so does the
\* stored payload in every reachable state.
C1_FilterSound ==
    /\ last.op \in {"cut", "copy"} => SelfContained(last.data[1])
    /\ objects # None => SelfContained(objects[1])

\* C2: the store is absent or holds a payload with at least one block; _store
\* with an empty block sequence leaves the store absent, and _store with one
\* or more blocks sets the store to exactly the payload it was given.
C2_StoreNonEmpty ==
    /\ objects # None => Len(objects[1].blocks) >= 1
    /\ last.op \in {"cut", "copy"} =>
          /\ last.data[1].blocks = <<>> => objects = None
          /\ last.data[1].blocks # <<>> => objects = last.data

\* A filled store is returned to absent by a cut or copy whose payload is empty.
C2_Witness ==
    /\ last.op \in {"cut", "copy"}
    /\ last.hadStore
    /\ last.data[1].blocks = <<>>
    /\ objects = None

\* C3: cut() deletes the selected items only if its payload was accepted by
\* the store: when the payload of a cut has zero blocks, the scene's blocks
\* and edges are the same after the cut as before it.
C3_CutOnlyIfAccepted ==
    [][(cut /\ _serializeSelected.blocks = <<>>) => (blocks' = blocks /\ edges' = edges)]_vars

\* C4: paste() never changes the clipboard store: its content after a paste
\* equals its content before, so consecutive pastes read the same payload.
C4_PasteKeepsStore ==
    /\ last.op = "paste" => objects = last.data
    /\ (last.op = "paste" /\ prev.op = "paste") => last.data = prev.data

\* Two pastes in a row of a stored payload that holds an edge.
C4_Witness ==
    /\ last.op = "paste"
    /\ prev.op = "paste"
    /\ objects # None
    /\ Len(objects[1].edges) >= 1
    /\ Len(last.newBlocks) >= 1

\* C5: paste() with the store absent warns and changes nothing in the scene:
\* no block or edge is created, the selection is not cleared, and no history
\* checkpoint is emitted.
C5_EmptyClipboard ==
    [][(objects = None /\ last'.op = "paste" /\ paste) =>
         /\ blocks' = blocks
         /\ edges' = edges
         /\ selBlocks' = selBlocks
         /\ selEdges' = selEdges
         /\ nextId' = nextId
         /\ objects' = None
         /\ last'.log = <<Ev("warn", 0)>>]_vars

\* A paste that found the store absent, with blocks and edges still selected.
C5_Witness ==
    /\ last.op = "paste"
    /\ last.data = None
    /\ last.log = <<Ev("warn", 0)>>
    /\ selBlocks # <<>>
    /\ selEdges # <<>>

\* The identities serialized in the payload p.
PayloadIds(p) ==
    {p.blocks[i].id : i \in DOMAIN p.blocks} \cup {p.edges[j].id : j \in DOMAIN p.edges}

\* C6: pasting a stored payload of k blocks and m edges, all of them valid,
\* adds exactly k new blocks and m new edges to the scene, under k + m
\* identities that are pairwise distinct and distinct from every identity
\* serialized in the payload.
C6_RoundTripCount ==
    [][(objects # None /\ SelfContained(objects[1]) /\ last'.op = "paste" /\ paste) =>
         LET nb == DOMAIN blocks' \ DOMAIN blocks
             ne == DOMAIN edges' \ DOMAIN edges
         IN  /\ DOMAIN blocks \subseteq DOMAIN blocks'
             /\ DOMAIN edges \subseteq DOMAIN edges'
             /\ Cardinality(nb) = Len(objects[1].blocks)
             /\ Cardinality(ne) = Len(objects[1].edges)
             /\ nb \cap ne = {}
             /\ (nb \cup ne) \cap PayloadIds(objects[1]) = {}
             /\ (nb \cup ne) \cap (DOMAIN blocks \cup DOMAIN edges) = {}]_vars

\* A paste of two blocks and the edge between them into the scene that still
\* holds the blocks they were copied from.
C6_Witness ==
    /\ last.op = "paste"
    /\ last.data # None
    /\ SelfContained(last.data[1])
    /\ Len(last.newBlocks) >= 2
    /\ Len(last.newEdges) >= 1
    /\ \A i \in DOMAIN last.data[1].blocks : last.data[1].blocks[i].id \in DOMAIN blocks

\* Twice the center of the bounding box of the serialized blocks bd:
\* xmin + xmax and ymin + ymax.
BBoxSum(bd) ==
    <<Min({bd[i].position[1] : i \in DOMAIN bd})
        + Max({bd[i].position[1] + bd[i].width : i \in DOMAIN bd}),
      Min({bd[i].position[2] : i \in DOMAIN bd})
        + Max({bd[i].position[2] + bd[i].height : i \in DOMAIN bd})>>

\* The halving done by _find_bbox_center is exact for every payload that can
\* still be pasted: the sums xmin + xmax and ymin + ymax are even.
HalvingExact ==
    (objects # None /\ pastes < MaxPastes) =>
        \A c \in {1, 2} : BBoxSum(objects[1].blocks)[c] % 2 = 0

\* C7: every pasted block stands at its serialized position plus
\* (px - cx, py - cy), (cx, cy) the center of the payload's bounding box and
\* (px, py) the pointer; so the offset between two pasted blocks is the
\* offset between their originals.
C7_Centering ==
    (last.op = "paste" /\ last.data # None) =>
        LET bd == last.data[1].blocks
            new(i) == blocks[last.newBlocks[i]].position
            old(i) == bd[i].position
        IN  /\ Len(last.newBlocks) = Len(bd)
            /\ \A i \in DOMAIN bd : \A c \in {1, 2} :
                  2 * (new(i)[c] - old(i)[c]) = 2 * last.mouse[c] - BBoxSum(bd)[c]
            /\ \A i, j \in DOMAIN bd : \A c \in {1, 2} :
                  new(i)[c] - new(j)[c] = old(i)[c] - old(j)[c]

\* A paste of two blocks whose bounding box has its center off the grid of
\* the block positions.
C7_Witness ==
    /\ last.op = "paste"
    /\ last.data # None
    /\ Len(last.newBlocks) >= 2
    /\ BBoxSum(last.data[1].blocks)[2] % (2 * Scale) # 0
    /\ blocks[last.newBlocks[1]].position # last.data[1].blocks[1].position

\* The blocks a paste created, as a subgraph: the index pairs (source block,
\* destination block) of the edges it created, by position in newBlocks.
Index(seq, x) == CHOOSE i \in DOMAIN seq : seq[i] = x
PastedLinks(l) ==
    {<<Index(l.newBlocks, edges[l.newEdges[j]].source_socket.block),
       Index(l.newBlocks, edges[l.newEdges[j]].destination_socket.block)>> :
        j \in DOMAIN l.newEdges}
\* The same for the payload p: the index pairs of its edges, by position in p.blocks.
PayloadLinks(p) ==
    LET ids == [i \in DOMAIN p.blocks |-> p.blocks[i].id]
        at(b) == IF b \in Range(ids) THEN Index(ids, b) ELSE 0
    IN  {<<at(p.edges[j].source_socket.block), at(p.edges[j].destination_socket.block)>> :
            j \in DOMAIN p.edges}
\* Twice the center of the bounding box of the blocks a paste created.
PastedBBoxSum(l) ==
    BBoxSum([i \in DOMAIN l.newBlocks |->
               [position |-> blocks[l.newBlocks[i]].position,
                width |-> blocks[l.newBlocks[i]].width,
                height |-> blocks[l.newBlocks[i]].height]])

\* C8: two consecutive pastes of the same stored payload at two different
\* pointer positions produce two subgraphs with the number of blocks and
\* edges and the edge-to-block connectivity of the payload, with disjoint
\* identities, each with its bounding-box center at the pointer position of
\* its own paste.
C8_RepasteIdentical ==
    (last.op = "paste" /\ prev.op = "paste" /\ last.data # None
        /\ last.mouse # prev.mouse) =>
        LET p == last.data[1] IN
        /\ Len(last.newBlocks) = Len(p.blocks) /\ Len(prev.newBlocks) = Len(p.blocks)
        /\ Len(last.newEdges) = Len(p.edges) /\ Len(prev.newEdges) = Len(p.edges)
        /\ PastedLinks(last) = PayloadLinks(p) /\ PastedLinks(prev) = PayloadLinks(p)
        /\ (Range(last.newBlocks) \cup Range(last.newEdges))
              \cap (Range(prev.newBlocks) \cup Range(prev.newEdges)) = {}
        /\ PastedBBoxSum(last) = <<2 * last.mouse[1], 2 * last.mouse[2]>>
        /\ PastedBBoxSum(prev) = <<2 * prev.mouse[1], 2 * prev.mouse[2]>>

\* C9: the store starts absent, only cut and copy write it, and each cut or
\* copy overwrites it with its own payload if at least one block was
\* selected and with absent if none was, whatever the store held before.
C9_LastWriteWins ==
    /\ objects = None
    /\ [][/\ objects' = objects \/ cut \/ copy
          /\ (last'.op \in {"cut", "copy"} /\ prev' = last /\ (cut \/ copy)) =>
                objects' = (IF selBlocks = <<>> THEN None ELSE <<_serializeSelected>>)]_vars

\* A copy with zero blocks selected that returned a filled store to absent.
C9_Witness ==
    /\ last.op = "copy"
    /\ last.nsel = 0
    /\ last.hadStore
    /\ prev.op \in {"cut", "copy"}
    /\ prev.nsel >= 1
    /\ objects = None

\* C10: after cut() with n >= 1 blocks selected and selected edges that all
\* join selected blocks, the store holds exactly the n blocks and those
\* edges, and none of them remains in the scene; a following paste()
\* re-creates the subgraph: n blocks, as many edges, each new edge joining
\* the new counterparts of the endpoints of its original.
C10_CutThenPaste ==
    /\ [][(/\ selBlocks # <<>>
            /\ ~(\E j \in DOMAIN selEdges :
                    NotFullyConnected(selEdges[j], selected_sockets(selBlocks)))
            /\ last'.op = "cut" /\ prev' = last /\ cut) =>
            /\ objects' = <<[blocks |-> [i \in DOMAIN selBlocks |-> SerializeBlock(selBlocks[i])],
                             edges |-> [j \in DOMAIN selEdges |-> SerializeEdge(selEdges[j])]]>>
            /\ Range(selBlocks) \cap DOMAIN blocks' = {}
            /\ Range(selEdges) \cap DOMAIN edges' = {}]_vars
    /\ []((prev.op = "cut" /\ prev.nsel >= 1 /\ prev.internal /\ last.op = "paste") =>
            /\ Len(last.newBlocks) = prev.nsel
            /\ Len(last.newEdges) = prev.msel
            /\ Range(last.newBlocks) \subseteq DOMAIN blocks
            /\ Range(last.newEdges) \subseteq DOMAIN edges
            /\ PastedLinks(last) = PayloadLinks(prev.data[1])
            /\ \A j \in DOMAIN last.newEdges :
                  /\ edges[last.newEdges[j]].source_socket.block =
                        last.hashmap[prev.data[1].edges[j].source_socket.block]
                  /\ edges[last.newEdges[j]].destination_socket.block =
                        last.hashmap[prev.data[1].edges[j].destination_socket.block])

\* A cut of two blocks and the edge between them, followed by a paste.
C10_Witness ==
    /\ prev.op = "cut"
    /\ prev.nsel = 2
    /\ prev.msel = 1
    /\ prev.internal
    /\ last.op = "paste"
    /\ Len(last.newEdges) = 1

\* C11: copy() does not change the scene: the blocks, the edges and the
\* selection (the selected blocks and the selected edges, with their order)
\* are the same after it as before, and so are the pointer position and the
\* identity counter; at most the store changes.
C11_CopyLeavesScene ==
    [][(last'.op = "copy" /\ prev' = last /\ copy) =>
         UNCHANGED <<blocks, edges, selBlocks, selEdges, lastMousePos, nextId>>]_vars

\* A copy of a selection with a block and an edge that the filter removes
\* from the payload, the edge still being selected afterwards.
C11_Witness ==
    /\ last.op = "copy"
    /\ last.nsel >= 1
    /\ ~last.internal
    /\ Len(last.data[1].edges) < last.msel
    /\ Len(selEdges) = last.msel
    /\ objects = last.data

\* C12: a paste of a payload with an edge whose socket the hashmap cannot
\* resolve is aborted and leaves nothing behind: none of the blocks and
\* none of the edges it created is in the scene afterwards.
C12_AbortLeavesNothing ==
    (last.op = "paste" /\ last.data # None /\ ~SelfContained(last.data[1])) =>
        /\ Range(last.newBlocks) \cap DOMAIN blocks = {}
        /\ Range(last.newEdges) \cap DOMAIN edges = {}

\* The positions in the event log of an operation of the events named ev.
EventsAt(log, ev) == {a \in DOMAIN log : log[a].ev = ev}

\* C13: within one paste of a stored payload every block of the payload is
\* created, and recorded in the hashmap under its serialized id, before the
\* first edge is created; the blocks are created in the order of the
\* payload's blocks and the edges in the order of the payload's edges.
C13_BlocksBeforeEdges ==
    (last.op = "paste" /\ last.data # None) =>
        LET p == last.data[1]
            k == Len(p.blocks)
            log == last.log
        IN  /\ Len(last.newBlocks) = k
            /\ Len(last.newEdges) <= Len(p.edges)
            /\ \A a \in EventsAt(log, "create_block"), b \in EventsAt(log, "addItem") : a < b
            /\ \A i \in 1..k :
                  /\ log[1 + i] = Ev("create_block", last.newBlocks[i])
                  /\ p.blocks[i].id \in DOMAIN last.hashmap
                  /\ last.hashmap[p.blocks[i].id] = last.newBlocks[i]
            /\ \A j \in DOMAIN last.newEdges :
                  /\ log[1 + k + j] = Ev("addItem", last.newEdges[j])
                  /\ last.hashmap[p.edges[j].id] = last.newEdges[j]
                  /\ edges[last.newEdges[j]].source_socket.block =
                        last.hashmap[p.edges[j].source_socket.block]
                  /\ edges[last.newEdges[j]].destination_socket.block =
                        last.hashmap[p.edges[j].destination_socket.block]

\* A paste of three blocks and two edges, the blocks and the edges of the
\* payload not being in the order of their ids.
C13_Witness ==
    /\ last.op = "paste"
    /\ Len(last.newBlocks) = 3
    /\ Len(last.newEdges) = 2
    /\ last.data[1].blocks[1].id > last.data[1].blocks[2].id
    /\ last.data[1].edges[1].id > last.data[1].edges[2].id
    /\ Cardinality(EventsAt(last.log, "addItem")) = 2

\* C14: every edge created by a paste has both its sockets on blocks created
\* by that same paste, namely those the hashmap gives for the owners of the
\* serialized sockets, and never on a block the scene held before; the
\* hashmap belongs to the one paste: it maps ids of the payload only, and
\* only to items that this paste created.
C14_EdgesBindNewBlocks ==
    last.op = "paste" =>
        /\ \A j \in DOMAIN last.newEdges :
              LET e == edges[last.newEdges[j]]
                  d == last.data[1].edges[j]
              IN  /\ e.source_socket.block \in Range(last.newBlocks)
                  /\ e.destination_socket.block \in Range(last.newBlocks)
                  /\ e.source_socket.block = last.hashmap[d.source_socket.block]
                  /\ e.destination_socket.block = last.hashmap[d.destination_socket.block]
                  /\ e.source_socket.kind = d.source_socket.kind
                  /\ e.destination_socket.kind = d.destination_socket.kind
        /\ \A old \in DOMAIN last.hashmap :
              /\ old \in PayloadIds(last.data[1])
              /\ last.hashmap[old] \in Range(last.newBlocks) \cup Range(last.newEdges)
        /\ Range(last.newBlocks) \cap Range(prev.newBlocks) = {}

\* A second paste of a copied payload with an edge, the blocks the payload
\* was copied from and the blocks of the first paste being in the scene.
C14_Witness ==
    /\ last.op = "paste"
    /\ prev.op = "paste"
    /\ Len(last.newEdges) >= 1
    /\ Len(prev.newEdges) >= 1
    /\ Range(prev.newBlocks) \subseteq DOMAIN blocks
    /\ \A i \in DOMAIN last.data[1].blocks : last.data[1].blocks[i].id \in DOMAIN blocks

\* C15: every paste of a stored payload emits exactly one history checkpoint,
\* marked as modifying the document, as its last event, after all the blocks
\* and all the edges of the payload have been added to the scene; cut and
\* copy emit no checkpoint.
C15_OneCheckpoint ==
    /\ (last.op = "paste" /\ last.data # None) =>
          /\ Cardinality(EventsAt(last.log, "checkpoint")) = 1
          /\ last.log[Len(last.log)] = Ev("checkpoint", 1)
          /\ Len(last.newBlocks) = Len(last.data[1].blocks)
          /\ Len(last.newEdges) = Len(last.data[1].edges)
          /\ Range(last.newBlocks) \subseteq DOMAIN blocks
          /\ Range(last.newEdges) \subseteq DOMAIN edges
    /\ last.op \in {"cut", "copy"} => EventsAt(last.log, "checkpoint") = {}

\* The same for the pastes of a payload whose edges all join blocks of the
\* payload.
C15_OneCheckpointSelfContained ==
    (last.op = "paste" /\ last.data # None /\ ~SelfContained(last.data[1])) \/ C15_OneCheckpoint

\* The ids of a sequence of serialized items, in order.
IdsOf(items) == [i \in DOMAIN items |-> items[i].id]

\* C16: the payload built by cut() or copy() holds every selected block
\* exactly once, in the order of the selection, and every selected edge
\* whose two sockets belong to selected blocks exactly once; the edges of
\* the payload are selected edges, in the order they have in the selection.
C16_SnapshotKeepsValid ==
    [][(last'.op \in {"cut", "copy"} /\ prev' = last /\ (cut \/ copy)) =>
         LET p == last'.data[1]
             socks == selected_sockets(selBlocks)
             Valid(e) == ~NotFullyConnected(e, socks)
             InValid(e) == e \in {selEdges[j] : j \in {j \in DOMAIN selEdges : Valid(selEdges[j])}}
             InPayload(e) == e \in Range(IdsOf(p.edges))
         IN  /\ p.blocks = [i \in DOMAIN selBlocks |-> SerializeBlock(selBlocks[i])]
             /\ SelectSeq(IdsOf(p.edges), InValid) = SelectSeq(selEdges, Valid)
             /\ SelectSeq(selEdges, InPayload) = IdsOf(p.edges)
             /\ \A j \in DOMAIN p.edges : p.edges[j] = SerializeEdge(p.edges[j].id)]_vars

\* A copy of two blocks selected against the order of their ids, with a
\* selected edge that leaves the selection followed by one that joins the
\* two blocks; the payload holds the second.
C16_Witness ==
    /\ last.op = "copy"
    /\ Len(selBlocks) = 2
    /\ selBlocks[1] > selBlocks[2]
    /\ IdsOf(last.data[1].blocks) = selBlocks
    /\ Len(selEdges) >= 2
    /\ NotFullyConnected(selEdges[1], selected_sockets(selBlocks))
    /\ ~NotFullyConnected(selEdges[2], selected_sockets(selBlocks))
    /\ selEdges[2] \in Range(IdsOf(last.data[1].edges))

\* C17: after a paste of a stored payload the selection of the scene is
\* exactly the blocks and the edges that this paste created: the selection
\* is cleared once, before any item is created, and every created block and
\* edge is selected and in the scene.
C17_SelectionIsPasted ==
    (last.op = "paste" /\ last.data # None) =>
        /\ selBlocks = last.newBlocks
        /\ selEdges = last.newEdges
        /\ Range(selBlocks) \subseteq DOMAIN blocks
        /\ Range(selEdges) \subseteq DOMAIN edges
        /\ EventsAt(last.log, "clearSelection") = {1}
        /\ \A a \in EventsAt(last.log, "create_block") \cup EventsAt(last.log, "addItem") :
              /\ a > 1
              /\ last.log[a].id \in Range(selBlocks) \cup Range(selEdges)

\* A paste that follows a copy of selected blocks and edges: the copied
\* items were selected when the paste began and are in the scene, and only
\* the pasted ones are selected now.
C17_Witness ==
    /\ prev.op = "copy"
    /\ prev.nsel >= 2
    /\ prev.msel >= 1
    /\ last.op = "paste"
    /\ Len(last.newBlocks) >= 2
    /\ Len(last.newEdges) >= 1
    /\ Range(IdsOf(last.data[1].blocks)) \subseteq DOMAIN blocks \ Range(selBlocks)
    /\ Range(IdsOf(last.data[1].edges)) \subseteq DOMAIN edges \ Range(selEdges)

====
